---- MODULE Spec2Model ----
(***************************************************************************)
(* Model of the connection-lifecycle server of pgbouncer-quota-enforcer:   *)
(* StandardTCPServer (Start / Stop / acceptConnections), the per-connection*)
(* handlers (PostgreSQLConnectionHandler, LoggingConnectionHandler) and    *)
(* the clients on the other end of the sockets.                            *)
(***************************************************************************)
EXTENDS Integers, Sequences, FiniteSets, TLC

\* ------------------------------------------------------------------ bounds
MaxStarts == 2      \* listeners a run may bind (successful Start calls)
MaxConns  == 2      \* connections a run may accept
MaxMsgs   == 2      \* messages in the script of one client
MaxFrames == 3      \* frames in the byte stream of one client
MaxTokens == 3      \* tokens of the SQL texts enumerated in full
MaxLoggers == 4     \* loggers: the base logger and those derived with WithField

Callers  == {"c1", "c2"}         \* goroutines calling Stop
Starters == {"c1"}               \* those of them that also call Start
Gens    == 1..MaxStarts          \* one accept loop (and one Start ctx) per successful Start
Conns   == 1..MaxConns           \* accepted sockets, in accept order
NoOne   == "none"

VARIABLES
    handler,        \* which ConnectionHandler the server was built with
    isRunning,      \* s.isRunning
    listener,       \* s.listener: 0 = nil, else the listener bound by the n-th successful Start
    address,        \* s.address: 0 = "", else the address of listener n
    lnCloses,       \* lnCloses[l]: times listener l had Close() called
    mu,             \* s.mu: the caller holding the write lock, or NoOne
    wg,             \* s.wg counter
    ctxDone,        \* ctxDone[g]: the ctx given to the g-th successful Start is cancelled
    pc,             \* pc[c]: where caller c is inside Start / Stop
    lastRet,        \* what the Start or Stop call that returned last returned
    srvLog,         \* the last message Start or Stop wrote to the log
    leaked,         \* drain goroutines of Stops that timed out, still inside wg.Wait()
    apc,            \* apc[g]: where accept loop g is
    aln,            \* aln[g]: the listener accept loop g called Accept on
    aconn,          \* aconn[g]: the connection Accept just returned to loop g (0 = none)
    nconn,          \* connections accepted so far
    spc,            \* spc[s]: where the session of connection s is
    sgen,           \* sgen[s]: the accept loop (hence ctx) that launched session s
    connCounter,    \* h.connectionID
    connID,         \* connID[s]: the identity session s drew (0 = not yet)
    rerr,           \* rerr[s]: the error the transport gave session s's last read
    ret,            \* ret[s]: the value HandleConnection is returning ("running" until it returns)
    sockCloses,     \* sockCloses[s]: times conn.Close() was called on socket s
    script,         \* script[s]: the decoded messages the client of socket s sends, in order
    nread,          \* nread[s]: how many messages of script[s] session s has read
    sink,           \* the calls the QueryLogger has received, in the order received
    sinkFails,      \* the QueryLogger methods that return an error in this run
    stream,         \* the bytes one client writes to its socket before it closes it
    wire,           \* the bytes of stream the session's decoder has not consumed
    wmsgs,          \* the messages ReadMessage has returned for stream, in order
    wsink,          \* the calls the QueryLogger has received for stream
    wret,           \* what the session reading stream returns ("running" until it does)
    fpOK,           \* whether pg_query.Fingerprint succeeds on what pg_query.Normalize accepts
    nin,            \* the SQL text given to the normalizer
    nout,           \* what Normalize returned for nin (err "pending" until it is called)
    nproc,          \* whether processMessage has handled a Query carrying nin
    nsink,          \* the calls the QueryLogger has received for that Query
    lheap,          \* the field maps allocated by the loggers, in order of allocation
    lfields,        \* for each *SimpleLogger, in order of creation, the map its fields points to
    lfrom           \* for each logger, the WithField call that made it and the receiver's fields then

srvVars    == <<handler, isRunning, listener, address, lnCloses, mu, wg, ctxDone>>
callVars   == <<pc, lastRet, srvLog, leaked>>
acceptVars == <<apc, aln, aconn, nconn>>
sessVars   == <<spc, sgen, connCounter, connID, rerr, ret, sockCloses>>
sinkVars   == <<script, nread, sink, sinkFails>>
wireVars   == <<stream, wire, wmsgs, wsink, wret>>
normVars   == <<fpOK, nin, nout, nproc, nsink>>
logVars    == <<lheap, lfields, lfrom>>
auxVars    == <<wireVars, normVars, logVars>>
vars       == <<srvVars, callVars, acceptVars, sessVars, sinkVars, auxVars>>

\* ------------------------------------------------------------ error values
\* An error value: the kind the transport produced, and whether it has been
\* wrapped by fmt.Errorf("...: %w", err).
Err(k, w) == [kind |-> k, wrapped |-> w]
NoErr == Err("none", FALSE)

\* PostgreSQLParser.ReadMessage: every error of backend.Receive is wrapped.
ReadMessageErr(k) == Err(k, TRUE)

\* conn.Read in LoggingConnectionHandler: the error is returned as it is.
ConnReadErr(k) == Err(k, FALSE)

\* err == io.EOF: identity with the sentinel, which a wrapped error is not.
IsEOF(e) == e.kind = "EOF" /\ ~e.wrapped

\* err.(net.Error) && netErr.Timeout(): a type assertion, which does not unwrap.
IsNetTimeout(e) == e.kind = "timeout" /\ ~e.wrapped

\* Mutant: the loop reads again after any error that is not end-of-stream.
MutOnReadError(e) == IF IsEOF(e) THEN "eof" ELSE "continue"

\* The error branch of the read loop: "eof" returns nil, "continue" loops,
\* "fatal" logs and returns an error.
OnReadError(e) ==
    IF IsEOF(e) THEN "eof"
    ELSE IF IsNetTimeout(e) THEN "continue"
    ELSE "fatal"

\* The error the handler's read call hands to the loop.
HandlerReadErr(h, k) == IF h = "postgres" THEN ReadMessageErr(k) ELSE ConnReadErr(k)

\* ------------------------------------------------------- messages and sink
\* SQL text is a sequence of tokens; white space is a token of its own.
EmptySQL  == <<>>
Blank     == <<" ">>
SelectOne == <<"select", " ", "1">>
SelectTwo == <<"select", " ", "2">>
Selec     == <<"selec", " ", "1">>

\* Mutant: only the space counts as white space.
MutIsSpace(t) == t = " "

IsSpace(t) == t \in {" ", "\t", "\n"}

\* strings.TrimSpace: leading and trailing white space removed.
RECURSIVE TrimLeft(_)
TrimLeft(q) == IF q # <<>> /\ IsSpace(Head(q)) THEN TrimLeft(Tail(q)) ELSE q

RECURSIVE TrimRight(_)
TrimRight(q) ==
    IF q # <<>> /\ IsSpace(q[Len(q)]) THEN TrimRight(SubSeq(q, 1, Len(q) - 1)) ELSE q

TrimSpace(q) == TrimRight(TrimLeft(q))

\* The PostgreSQL parser behind pg_query: a statement starts with a keyword.
Keywords == {"select", "with"}
Literals == {"1", "2"}
PgParses(q) == TrimSpace(q) # <<>> /\ Head(TrimSpace(q)) \in Keywords

\* The placeholder "$k".
Placeholder(k) ==
    IF k = 1 THEN "$1" ELSE IF k = 2 THEN "$2" ELSE IF k = 3 THEN "$3" ELSE "$n"

\* The places of the literals of a text.
LiteralPositions(q) == {i \in 1..Len(q) : q[i] \in Literals}

\* The last token before place i that is not white space ("" if none).
RECURSIVE PrevWord(_, _)
PrevWord(q, i) ==
    IF i <= 1 THEN ""
    ELSE IF IsSpace(q[i - 1]) THEN PrevWord(q, i - 1) ELSE q[i - 1]

\* Place i lies in the parenthesised body of a common table expression.
InCTE(q, i) ==
    /\ \E j \in 1..i : q[j] = "with"
    /\ Cardinality({j \in 1..i : q[j] = "("}) > Cardinality({j \in 1..i : q[j] = ")"})

\* The parser's walk of a SELECT visits the clauses of the statement first,
\* then its OFFSET, then its LIMIT, and its WITH clause last.
Clause(q, i) ==
    IF InCTE(q, i) THEN 3
    ELSE IF PrevWord(q, i) = "limit" THEN 2
    ELSE IF PrevWord(q, i) = "offset" THEN 1
    ELSE 0

\* The literal at place i is visited before the one at place j.
VisitedBefore(q, i, j) ==
    Clause(q, i) < Clause(q, j) \/ (Clause(q, i) = Clause(q, j) /\ i < j)

\* Mutant: every literal gets the first number.
MutParamNumber(q, i) == 1

\* The number of the placeholder that replaces the literal at place i: the
\* literals are numbered as the walk meets them.
ParamNumber(q, i) == 1 + Cardinality({j \in LiteralPositions(q) : VisitedBefore(q, j, i)})

\* pg_query.Normalize: every literal replaced by its placeholder.
PgNormalize(q) ==
    [i \in 1..Len(q) |-> IF q[i] \in Literals THEN Placeholder(ParamNumber(q, i)) ELSE q[i]]

\* pg_query.Fingerprint: the statement's shape, literals and white space aside.
PgFingerprint(q) ==
    LET F[i \in 0..Len(q)] ==
            IF i = 0 THEN <<>>
            ELSE IF IsSpace(q[i]) THEN F[i - 1]
            ELSE IF q[i] \in Literals THEN Append(F[i - 1], "?")
            ELSE Append(F[i - 1], q[i])
    IN  F[Len(q)]

\* domain.NormalizedQuery{}: the zero value.
ZeroNormalizedQuery == [Original |-> <<>>, Normalized |-> <<>>, Hash |-> [value |-> <<>>]]

\* domain.NewQueryHash: the fingerprint, kept as it is.
NewQueryHash(fp) == [value |-> fp]

\* Mutant: the hash is taken from the raw text.
MutNormalizeRawHash(q) ==
    IF q = EmptySQL
    THEN [val |-> ZeroNormalizedQuery, err |-> "empty query"]
    ELSE IF TrimSpace(q) = EmptySQL
    THEN [val |-> ZeroNormalizedQuery, err |-> "empty query"]
    ELSE IF ~PgParses(q)
    THEN [val |-> ZeroNormalizedQuery, err |-> "failed to normalize"]
    ELSE IF ~fpOK
    THEN [val |-> ZeroNormalizedQuery, err |-> "failed to generate fingerprint"]
    ELSE [val |-> [Original |-> q, Normalized |-> PgNormalize(q),
                   Hash |-> NewQueryHash(q)],
          err |-> "none"]

\* Mutant: when the fingerprint fails, what has been computed is returned.
MutNormalizePartial(q) ==
    IF q = EmptySQL
    THEN [val |-> ZeroNormalizedQuery, err |-> "empty query"]
    ELSE IF TrimSpace(q) = EmptySQL
    THEN [val |-> ZeroNormalizedQuery, err |-> "empty query"]
    ELSE IF ~PgParses(q)
    THEN [val |-> ZeroNormalizedQuery, err |-> "failed to normalize"]
    ELSE IF ~fpOK
    THEN [val |-> [Original |-> q, Normalized |-> PgNormalize(q),
                   Hash |-> [value |-> <<>>]],
          err |-> "failed to generate fingerprint"]
    ELSE [val |-> [Original |-> q, Normalized |-> PgNormalize(q),
                   Hash |-> NewQueryHash(PgFingerprint(q))],
          err |-> "none"]

\* PgQueryNormalizer.Normalize: the result and the error ("none" = nil).
Normalize(q) ==
    IF q = EmptySQL
    THEN [val |-> ZeroNormalizedQuery, err |-> "empty query"]
    ELSE IF TrimSpace(q) = EmptySQL
    THEN [val |-> ZeroNormalizedQuery, err |-> "empty query"]
    ELSE IF ~PgParses(q)
    THEN [val |-> ZeroNormalizedQuery, err |-> "failed to normalize"]
    ELSE IF ~fpOK
    THEN [val |-> ZeroNormalizedQuery, err |-> "failed to generate fingerprint"]
    ELSE [val |-> [Original |-> q, Normalized |-> PgNormalize(q),
                   Hash |-> NewQueryHash(PgFingerprint(q))],
          err |-> "none"]

\* *ParsedMessage, as parseMessage builds it; Details is the set of its
\* key/value pairs.
ParsedMessage(t, q, d) == [Type |-> t, Query |-> q, Details |-> d]
QueryMsg(q)     == ParsedMessage("Query", q, {<<"sql", q>>})
ParseMsg(nm, q) == ParsedMessage("Parse", q, {<<"name", nm>>, <<"query", q>>})
SyncMsg         == ParsedMessage("Sync", EmptySQL, {})
TerminateMsg    == ParsedMessage("Terminate", EmptySQL, {})
PasswordMsg(pw) == ParsedMessage("PasswordMessage", EmptySQL, {<<"password_length", Len(pw)>>})

\* An empty query, which a client may send at any time between the messages
\* of its script (a driver's connection test).
KeepAlive == QueryMsg(EmptySQL)

\* What the clients of a run send: each follows one of these, cut to MaxMsgs.
Traffic ==
    { <<QueryMsg(SelectOne), QueryMsg(SelectTwo), ParseMsg("s2", SelectOne)>>,
      <<SyncMsg, QueryMsg(SelectOne), TerminateMsg>>,
      <<QueryMsg(Selec), ParseMsg("s1", SelectTwo), QueryMsg(Blank)>>,
      <<QueryMsg(EmptySQL), PasswordMsg(<<"p", "w">>), QueryMsg(Blank)>> }

Scripts == {SubSeq(t, 1, IF Len(t) < MaxMsgs THEN Len(t) ELSE MaxMsgs) : t \in Traffic}

\* The methods of domain.QueryLogger.
SinkCalls == {"LogQuery", "LogNormalizedQuery", "LogProtocolMessage"}

\* The failures of the QueryLogger a run may have: none, LogQuery alone, the
\* other two methods.
SinkFailures == {{}, {"LogQuery"}, {"LogNormalizedQuery", "LogProtocolMessage"}}

\* fmt.Sprintf("conn_%d", connID).
ConnectionIDString(n) == <<"conn_", n>>

\* One call received by the QueryLogger: the connection ID passed, the method,
\* its argument, and whether it returned an error; sock and seq record the
\* session that made the call and the place in its script of the message.
SinkCall(s, id, c, n, a, fails) ==
    [sock |-> s, id |-> id, call |-> c, seq |-> n, arg |-> a, err |-> c \in fails]

\* Mutant: the calls are queued in front of those the QueryLogger already has.
MutDeliver(sk, calls) == calls \o sk

\* The calls of processMessage are synchronous: the QueryLogger has received
\* them, in the order made, when processMessage returns.
Deliver(sk, calls) == sk \o calls

\* Mutant: a message that is not a query is dropped.
MutProcessMessageDrop(s, id, n, m, fails) ==
    IF m.Type \in {"Query", "Parse"}
    THEN IF m.Query # EmptySQL
         THEN <<SinkCall(s, id, "LogQuery", n, m.Query, fails)>> \o
              (IF Normalize(m.Query).err = "none"
               THEN <<SinkCall(s, id, "LogNormalizedQuery", n, Normalize(m.Query).val, fails)>>
               ELSE <<>>)
         ELSE <<>>
    ELSE <<>>

\* Mutant: a LogQuery that failed is called a second time.
MutProcessMessageRetry(s, id, n, m, fails) ==
    IF m.Type \in {"Query", "Parse"}
    THEN IF m.Query # EmptySQL
         THEN <<SinkCall(s, id, "LogQuery", n, m.Query, fails)>> \o
              (IF "LogQuery" \in fails
               THEN <<SinkCall(s, id, "LogQuery", n, m.Query, fails)>> ELSE <<>>) \o
              (IF Normalize(m.Query).err = "none"
               THEN <<SinkCall(s, id, "LogNormalizedQuery", n, Normalize(m.Query).val, fails)>>
               ELSE <<>>)
         ELSE <<>>
    ELSE <<SinkCall(s, id, "LogProtocolMessage", n, <<m.Type, m.Details>>, fails)>>

\* Mutant: processMessage gives up on the message when LogQuery fails.
MutProcessMessage(s, id, n, m, fails) ==
    IF m.Type \in {"Query", "Parse"}
    THEN IF m.Query # EmptySQL
         THEN <<SinkCall(s, id, "LogQuery", n, m.Query, fails)>> \o
              (IF Normalize(m.Query).err = "none" /\ "LogQuery" \notin fails
               THEN <<SinkCall(s, id, "LogNormalizedQuery", n, Normalize(m.Query).val, fails)>>
               ELSE <<>>)
         ELSE <<>>
    ELSE <<SinkCall(s, id, "LogProtocolMessage", n, <<m.Type, m.Details>>, fails)>>

\* processMessage: the calls it makes on the QueryLogger for message m, the
\* n-th of session s, whose connection ID is id.
ProcessMessage(s, id, n, m, fails) ==
    IF m.Type \in {"Query", "Parse"}
    THEN IF m.Query # EmptySQL
         THEN <<SinkCall(s, id, "LogQuery", n, m.Query, fails)>> \o
              (IF Normalize(m.Query).err = "none"
               THEN <<SinkCall(s, id, "LogNormalizedQuery", n, Normalize(m.Query).val, fails)>>
               ELSE <<>>)
         ELSE <<>>
    ELSE <<SinkCall(s, id, "LogProtocolMessage", n, <<m.Type, m.Details>>, fails)>>

\* The error processMessage returns: that of LogProtocolMessage, nothing else.
ProcessMessageErr(m, fails) ==
    m.Type \notin {"Query", "Parse"} /\ "LogProtocolMessage" \in fails

\* The lines processMessage writes with h.logger.Error.
ProcessMessageLogs(m, fails) ==
    IF m.Type \in {"Query", "Parse"} /\ m.Query # EmptySQL
    THEN (IF "LogQuery" \in fails THEN {"Failed to log query"} ELSE {})
         \cup (IF Normalize(m.Query).err # "none" THEN {"Failed to normalize query"}
               ELSE IF "LogNormalizedQuery" \in fails
               THEN {"Failed to log normalized query"} ELSE {})
    ELSE {}

\* Mutant: the loop returns when processMessage fails or normalization fails.
MutAfterProcessMessage(m, fails) ==
    IF ProcessMessageErr(m, fails) \/ ProcessMessageLogs(m, fails) # {}
    THEN "closing" ELSE "top"

\* The read loop after processMessage: an error is logged and the loop goes on.
AfterProcessMessage(m, fails) == "top"

\* -------------------------------------------------------------------- Init
\* NewStandardTCPServer, NewPostgreSQLConnectionHandler / NewLoggingConnectionHandler:
\* zero-valued fields, nothing bound, nothing accepted.
InitFields ==
    /\ isRunning = FALSE /\ listener = 0 /\ address = 0
    /\ lnCloses = [l \in Gens |-> 0]
    /\ mu = NoOne /\ wg = 0
    /\ ctxDone = [g \in Gens |-> FALSE]
    /\ pc = [c \in Callers |-> "idle"]
    /\ lastRet = "none"
    /\ srvLog = "none"
    /\ leaked = 0
    /\ apc = [g \in Gens |-> "none"]
    /\ aln = [g \in Gens |-> 0]
    /\ aconn = [g \in Gens |-> 0]
    /\ nconn = 0
    /\ spc = [s \in Conns |-> "none"]
    /\ sgen = [s \in Conns |-> 0]
    /\ connCounter = 0
    /\ connID = [s \in Conns |-> 0]
    /\ rerr = [s \in Conns |-> NoErr]
    /\ ret = [s \in Conns |-> "running"]
    /\ sockCloses = [s \in Conns |-> 0]
    /\ nread = [s \in Conns |-> 0]
    /\ sink = <<>>

\* Clients that send nothing but empty queries, and a QueryLogger that works.
QuietClients == script = [s \in Conns |-> <<>>] /\ sinkFails = {}

\* No byte stream is being decoded.
NoWire == stream = <<>> /\ wire = <<>> /\ wmsgs = <<>> /\ wsink = <<>> /\ wret = "running"

\* The normalizer is not exercised on its own, and pg_query.Fingerprint works.
NoNormalizer ==
    /\ fpOK = TRUE /\ nin = <<>> /\ nproc = FALSE /\ nsink = <<>>
    /\ nout = [val |-> ZeroNormalizedQuery, err |-> "pending"]

\* make(map[string]interface{}).
EmptyMap == <<>>

\* NewSimpleLogger: one logger, with a map of its own that has no fields.
NewSimpleLogger ==
    /\ lheap = <<EmptyMap>>
    /\ lfields = <<1>>
    /\ lfrom = <<[parent |-> 0, key |-> "none", value |-> "none", had |-> EmptyMap]>>

\* Nothing but the server runs.
ServerOnly == NoWire /\ NoNormalizer /\ NewSimpleLogger

\* The wiring of NewServerService: the PostgreSQL handler.
Init == InitFields /\ handler = "postgres" /\ QuietClients /\ ServerOnly

\* Either handler implementing domain.ConnectionHandler.
InitHandlers == InitFields /\ handler \in {"postgres", "logging"} /\ QuietClients /\ ServerOnly

\* The PostgreSQL handler, each client with a script, and a QueryLogger of
\* which some methods may fail.
InitDispatch ==
    /\ InitFields
    /\ handler = "postgres"
    /\ script \in [Conns -> Scripts]
    /\ sinkFails \in SinkFailures
    /\ ServerOnly

\* ------------------------------------------------------------------- Start
\* A goroutine has panicked: the process has ended, nothing runs any more.
Panicked == lastRet = "panic"

\* wg.Add(1) when the counter has come down to zero and a Wait that this has
\* released has not returned yet: sync.WaitGroup panics, in Add ("Add called
\* concurrently with Wait") or in the waiter ("WaitGroup is reused before
\* previous Wait has returned").
WaitGroupMisuse == leaked > 0 /\ wg = 0

\* Number of listeners bound so far (listeners are numbered in bind order).
Bound == Cardinality({g \in Gens : apc[g] # "none"})

\* Mutant: Start without its running check.
MutStartFindsRunning == FALSE

\* The guard of Start: "if s.isRunning".
StartFindsRunning == isRunning

\* Mutant: the address of an earlier listener is kept.
MutListenerAddr(g) == IF address # 0 THEN address ELSE g

\* listener.Addr().String(): the address of listener g.
ListenerAddr(g) == g

\* A caller invokes Start(ctx, address) with a fresh ctx; it queues on s.mu.
StartCall(c) ==
    /\ ~Panicked
    /\ pc[c] = "idle"
    /\ Bound + Cardinality({d \in Callers : pc[d] = "start_lock"}) < MaxStarts
    /\ pc' = [pc EXCEPT ![c] = "start_lock"]
    /\ UNCHANGED <<srvVars, lastRet, srvLog, leaked, acceptVars, sessVars, sinkVars, auxVars>>

\* The body of Start, run with s.mu held: the running check, net.Listen, the
\* field updates, wg.Add(1) and the launch of the accept loop.
StartBody(c) ==
    /\ ~Panicked
    /\ pc[c] = "start_lock"
    /\ mu = NoOne
    /\ pc' = [pc EXCEPT ![c] = "idle"]
    /\ IF StartFindsRunning
       THEN /\ lastRet' = "AlreadyRunning"
            /\ UNCHANGED <<srvVars, acceptVars, srvLog>>
       ELSE \E bindOK \in BOOLEAN :
            IF bindOK /\ WaitGroupMisuse
            THEN /\ lastRet' = "panic"
                 /\ UNCHANGED <<srvVars, acceptVars, srvLog>>
            ELSE IF bindOK
            THEN LET g == Bound + 1 IN
                 /\ listener' = g
                 /\ address' = ListenerAddr(g)
                 /\ isRunning' = TRUE
                 /\ wg' = wg + 1
                 /\ apc' = [apc EXCEPT ![g] = "accept"]
                 /\ aln' = [aln EXCEPT ![g] = g]
                 /\ lastRet' = "StartOK"
                 /\ srvLog' = "started"
                 /\ UNCHANGED <<handler, lnCloses, mu, ctxDone, aconn, nconn>>
            ELSE /\ lastRet' = "BindFailure"
                 /\ UNCHANGED <<srvVars, acceptVars, srvLog>>
    /\ UNCHANGED <<leaked, sessVars, sinkVars, auxVars>>

\* The caller of Start cancels the ctx it passed.
CancelCtx(g) ==
    /\ ~Panicked
    /\ apc[g] # "none"
    /\ ~ctxDone[g]
    /\ ctxDone' = [ctxDone EXCEPT ![g] = TRUE]
    /\ UNCHANGED <<handler, isRunning, listener, address, lnCloses, mu, wg,
                   callVars, acceptVars, sessVars, sinkVars, auxVars>>

\* -------------------------------------------------------------------- Stop
\* Mutant: Stop without its running check.
MutStopFindsStopped == FALSE

\* The guard of Stop: "if !s.isRunning".
StopFindsStopped == ~isRunning

\* Mutant: the drain goroutine closes done without waiting for the counter.
MutWgDrained == TRUE

\* wg.Wait() returns: the counter is zero.
WgDrained == wg = 0

\* Mutant: Stop leaves the listener open.
MutListenerClose(l) == lnCloses

\* s.listener.Close() on listener l (nothing to close when s.listener is nil).
ListenerClose(l) == IF l # 0 THEN [lnCloses EXCEPT ![l] = @ + 1] ELSE lnCloses

\* A caller invokes Stop(ctx); it queues on s.mu.
StopCall(c) ==
    /\ ~Panicked
    /\ pc[c] = "idle"
    /\ pc' = [pc EXCEPT ![c] = "stop_lock"]
    /\ UNCHANGED <<srvVars, lastRet, srvLog, leaked, acceptVars, sessVars, sinkVars, auxVars>>

\* Stop acquires s.mu; a stopped server returns nil at once (the deferred
\* Unlock runs); a running one has its listener closed, s.mu still held.
StopEnter(c) ==
    /\ ~Panicked
    /\ pc[c] = "stop_lock"
    /\ mu = NoOne
    /\ IF StopFindsStopped
       THEN /\ pc' = [pc EXCEPT ![c] = "idle"]
            /\ lastRet' = "StopOK"
            /\ UNCHANGED <<mu, lnCloses, srvLog>>
       ELSE /\ pc' = [pc EXCEPT ![c] = "stop_flag"]
            /\ mu' = c
            /\ lnCloses' = ListenerClose(listener)
            /\ srvLog' = "stopping"
            /\ UNCHANGED lastRet
    /\ UNCHANGED <<handler, isRunning, listener, address, wg, ctxDone,
                   leaked, acceptVars, sessVars, sinkVars, auxVars>>

\* s.isRunning = false, then the drain goroutine is launched and Stop selects.
StopDrainBegin(c) ==
    /\ ~Panicked
    /\ pc[c] = "stop_flag"
    /\ isRunning' = FALSE
    /\ pc' = [pc EXCEPT ![c] = "stop_wait"]
    /\ UNCHANGED <<handler, listener, address, lnCloses, mu, wg, ctxDone,
                   lastRet, srvLog, leaked, acceptVars, sessVars, sinkVars, auxVars>>

\* The drain goroutine's wg.Wait() returns, it closes done, and the select
\* takes "case <-done": Stop returns nil and the deferred Unlock runs.
StopReturnDone(c) ==
    /\ ~Panicked
    /\ pc[c] = "stop_wait"
    /\ WgDrained
    /\ pc' = [pc EXCEPT ![c] = "idle"]
    /\ lastRet' = "StopOK"
    /\ srvLog' = "graceful"
    /\ mu' = NoOne
    /\ UNCHANGED <<handler, isRunning, listener, address, lnCloses, wg, ctxDone,
                   leaked, acceptVars, sessVars, sinkVars, auxVars>>

\* The ctx given to Stop expires and the select takes "case <-ctx.Done()":
\* Stop returns ctx.Err() and the deferred Unlock runs; the drain goroutine
\* stays behind inside wg.Wait() unless the counter is already zero.
StopReturnTimeout(c) ==
    /\ ~Panicked
    /\ pc[c] = "stop_wait"
    /\ pc' = [pc EXCEPT ![c] = "idle"]
    /\ lastRet' = "DrainTimeout"
    /\ srvLog' = "timeout"
    /\ leaked' = IF WgDrained THEN leaked ELSE leaked + 1
    /\ mu' = NoOne
    /\ UNCHANGED <<handler, isRunning, listener, address, lnCloses, wg, ctxDone,
                   acceptVars, sessVars, sinkVars, auxVars>>

\* A drain goroutine left behind by a Stop that timed out: wg.Wait() returns.
LeakedWaiterReturn ==
    /\ ~Panicked
    /\ leaked > 0
    /\ WgDrained
    /\ leaked' = leaked - 1
    /\ UNCHANGED <<srvVars, pc, lastRet, srvLog, acceptVars, sessVars, sinkVars, auxVars>>

\* ------------------------------------------------------------ accept loop
\* The listener is bound and has not been closed.
ListenerOpen(l) == l # 0 /\ lnCloses[l] = 0

\* s.listener.Accept() returns a connection.
AcceptConn(g) ==
    /\ ~Panicked
    /\ apc[g] = "accept"
    /\ ListenerOpen(aln[g])
    /\ nconn < MaxConns
    /\ nconn' = nconn + 1
    /\ aconn' = [aconn EXCEPT ![g] = nconn + 1]
    /\ apc' = [apc EXCEPT ![g] = "spawn"]
    /\ UNCHANGED <<srvVars, callVars, aln, sessVars, sinkVars, auxVars>>

\* s.listener.Accept() returns an error because the listener is closed.
AcceptClosed(g) ==
    /\ ~Panicked
    /\ apc[g] = "accept"
    /\ ~ListenerOpen(aln[g])
    /\ apc' = [apc EXCEPT ![g] = "err"]
    /\ UNCHANGED <<srvVars, callVars, aln, aconn, nconn, sessVars, sinkVars, auxVars>>

\* s.listener.Accept() returns an error on an open listener (a transient
\* failure of accept).
AcceptTransient(g) ==
    /\ ~Panicked
    /\ apc[g] = "accept"
    /\ ListenerOpen(aln[g])
    /\ apc' = [apc EXCEPT ![g] = "err"]
    /\ UNCHANGED <<srvVars, callVars, aln, aconn, nconn, sessVars, sinkVars, auxVars>>

\* The error branch of the loop: ctx.Done() first, else the running flag is
\* read under s.mu.RLock(); a running server logs the error and accepts again
\* on whatever s.listener is now.
AcceptErrCheck(g) ==
    /\ ~Panicked
    /\ apc[g] = "err"
    /\ IF ctxDone[g]
       THEN /\ apc' = [apc EXCEPT ![g] = "done"]
            /\ wg' = wg - 1
            /\ UNCHANGED aln
       ELSE /\ mu = NoOne
            /\ IF ~isRunning
               THEN /\ apc' = [apc EXCEPT ![g] = "done"]
                    /\ wg' = wg - 1
                    /\ UNCHANGED aln
               ELSE /\ apc' = [apc EXCEPT ![g] = "accept"]
                    /\ aln' = [aln EXCEPT ![g] = listener]
                    /\ UNCHANGED wg
    /\ UNCHANGED <<handler, isRunning, listener, address, lnCloses, mu, ctxDone,
                   callVars, aconn, nconn, sessVars, sinkVars, auxVars>>

\* wg.Add(1); go func(c) {...}(conn); then the loop calls Accept again.
AcceptSpawn(g) ==
    /\ ~Panicked
    /\ apc[g] = "spawn"
    /\ wg' = wg + 1
    /\ spc' = [spc EXCEPT ![aconn[g]] = "new"]
    /\ sgen' = [sgen EXCEPT ![aconn[g]] = g]
    /\ aconn' = [aconn EXCEPT ![g] = 0]
    /\ apc' = [apc EXCEPT ![g] = "accept"]
    /\ aln' = [aln EXCEPT ![g] = listener]
    /\ UNCHANGED <<handler, isRunning, listener, address, lnCloses, mu, ctxDone,
                   callVars, nconn, connCounter, connID, rerr, ret, sockCloses,
                   sinkVars, auxVars>>

\* ----------------------------------------------------------------- session
\* Mutant: the return on cancellation skips the close.
MutDeferredClose(n, r) == IF r = "ctxErr" THEN n ELSE n + 1

\* The deferred conn.Close() of HandleConnection, run on return with value r.
DeferredClose(n, r) == n + 1

\* Mutant: the counter is written without being read.
MutAddInt64(v, d) == d

\* atomic.AddInt64: the new value, stored and returned in one step.
AddInt64(v, d) == v + d

\* atomic.AddInt64(&h.connectionID, 1) and the connection logger.
SessStart(s) ==
    /\ ~Panicked
    /\ spc[s] = "new"
    /\ connCounter' = AddInt64(connCounter, 1)
    /\ connID' = [connID EXCEPT ![s] = AddInt64(connCounter, 1)]
    /\ spc' = [spc EXCEPT ![s] = "top"]
    /\ UNCHANGED <<srvVars, callVars, acceptVars, sgen, rerr, ret, sockCloses,
                   sinkVars, auxVars>>

\* Mutant: the select always takes its default branch.
MutSelectDone(g) == FALSE

\* select { case <-ctx.Done(): ... default: }: the Done case is taken exactly
\* when the ctx of the session's Start is cancelled.
SelectDone(g) == ctxDone[g]

\* The top of the loop: select on ctx.Done() with a default that sets the
\* read deadline (which may fail).
SessLoopTop(s) ==
    /\ ~Panicked
    /\ spc[s] = "top"
    /\ IF SelectDone(sgen[s])
       THEN /\ ret' = [ret EXCEPT ![s] = "ctxErr"]
            /\ spc' = [spc EXCEPT ![s] = "closing"]
       ELSE \E deadlineOK \in BOOLEAN :
            IF deadlineOK
            THEN /\ spc' = [spc EXCEPT ![s] = "read"]
                 /\ UNCHANGED ret
            ELSE /\ ret' = [ret EXCEPT ![s] = "deadlineErr"]
                 /\ spc' = [spc EXCEPT ![s] = "closing"]
    /\ UNCHANGED <<srvVars, callVars, acceptVars, sgen, connCounter, connID, rerr,
                   sockCloses, sinkVars, auxVars>>

\* The errors a blocked read can end with: the peer's close (io.EOF), the read
\* deadline (a net.Error whose Timeout() is true), any other transport or
\* decode failure.
ReadErrKinds == {"EOF", "timeout", "other"}

\* The read returns a message (or bytes): the next one of the client's script,
\* or an empty query.  The PostgreSQL handler dispatches it with processMessage
\* (the bytes the logging handler hands to its ByteLogger are not recorded), and
\* the loop goes on.
SessReadMsg(s) ==
    /\ ~Panicked
    /\ spc[s] = "read"
    /\ \E scripted \in BOOLEAN :
        /\ scripted => nread[s] < Len(script[s])
        /\ LET n == IF scripted THEN nread[s] + 1 ELSE 0
               m == IF scripted THEN script[s][n] ELSE KeepAlive
           IN  /\ nread' = IF scripted THEN [nread EXCEPT ![s] = n] ELSE nread
               /\ sink' = IF handler = "postgres"
                          THEN Deliver(sink, ProcessMessage(s, ConnectionIDString(connID[s]),
                                                            n, m, sinkFails))
                          ELSE sink
               /\ spc' = [spc EXCEPT ![s] =
                             IF handler = "postgres"
                             THEN AfterProcessMessage(m, sinkFails) ELSE "top"]
    /\ rerr' = [rerr EXCEPT ![s] = NoErr]
    /\ UNCHANGED <<srvVars, callVars, acceptVars, sgen, connCounter, connID, ret,
                   sockCloses, script, sinkFails, auxVars>>

\* The read returns an error, which the loop classifies.
SessReadErr(s) ==
    /\ ~Panicked
    /\ spc[s] = "read"
    /\ \E k \in ReadErrKinds :
        LET e == HandlerReadErr(handler, k)
            o == OnReadError(e)
        IN  /\ rerr' = [rerr EXCEPT ![s] = e]
            /\ spc' = [spc EXCEPT ![s] = IF o = "continue" THEN "top" ELSE "closing"]
            /\ ret' = [ret EXCEPT ![s] = IF o = "eof" THEN "nil"
                                         ELSE IF o = "fatal" THEN "readErr" ELSE @]
    /\ UNCHANGED <<srvVars, callVars, acceptVars, sgen, connCounter, connID,
                   sockCloses, sinkVars, auxVars>>

\* The handler logs an error before returning r: connLogger.Error on the
\* deadline and read failures (Info on cancellation and on end-of-stream).
HandlerLogsError(r) == r \in {"deadlineErr", "readErr"}

\* The server's goroutine logs "Error handling connection" for a non-nil return.
ServerLogsError(r) == r # "nil"

\* Mutant: the server's goroutine shuts the server down when a handler
\* returns an error.
MutSessExit(s) ==
    /\ ~Panicked
    /\ spc[s] = "closing"
    /\ sockCloses' = [sockCloses EXCEPT ![s] = DeferredClose(@, ret[s])]
    /\ wg' = wg - 1
    /\ spc' = [spc EXCEPT ![s] = "done"]
    /\ rerr' = [rerr EXCEPT ![s] = NoErr]
    /\ sgen' = [sgen EXCEPT ![s] = 0]
    /\ isRunning' = (isRunning /\ ~ServerLogsError(ret[s]))
    /\ UNCHANGED <<handler, listener, address, lnCloses, mu, ctxDone,
                   callVars, acceptVars, connCounter, connID, ret, sinkVars, auxVars>>

\* HandleConnection returns: the deferred conn.Close(), then in the server's
\* goroutine the error log for a non-nil return and the deferred wg.Done().
SessExit(s) ==
    /\ ~Panicked
    /\ spc[s] = "closing"
    /\ sockCloses' = [sockCloses EXCEPT ![s] = DeferredClose(@, ret[s])]
    /\ wg' = wg - 1
    /\ spc' = [spc EXCEPT ![s] = "done"]
    /\ rerr' = [rerr EXCEPT ![s] = NoErr]
    /\ sgen' = [sgen EXCEPT ![s] = 0]
    /\ UNCHANGED <<handler, isRunning, listener, address, lnCloses, mu, ctxDone,
                   callVars, acceptVars, connCounter, connID, ret, sinkVars, auxVars>>

\* -------------------------------------------------------------------- Next
\* Steps the server's goroutines take on their own, whatever the callers,
\* the clients and the timers do: an accept loop leaving a closed listener or
\* its error branch or launching a session, a session starting or returning,
\* a left-behind drain goroutine ending.
ServerStep ==
    \/ LeakedWaiterReturn
    \/ \E g \in Gens : AcceptClosed(g) \/ AcceptErrCheck(g) \/ AcceptSpawn(g)
    \/ \E s \in Conns : SessStart(s) \/ SessExit(s)

Next ==
    \/ \E c \in Starters : StartCall(c) \/ StartBody(c)
    \/ \E c \in Callers :
        \/ StopCall(c) \/ StopEnter(c) \/ StopDrainBegin(c)
        \/ StopReturnDone(c) \/ StopReturnTimeout(c)
    \/ \E g \in Gens : CancelCtx(g) \/ AcceptConn(g) \/ AcceptTransient(g)
    \/ \E s \in Conns : SessLoopTop(s) \/ SessReadMsg(s) \/ SessReadErr(s)
    \/ ServerStep

Spec == Init /\ [][Next]_vars

SpecHandlers == InitHandlers /\ [][Next]_vars

\* The server is started once (again after a bind failure) and left running,
\* its ctx may be cancelled, and the clients follow their scripts.
NextDispatch ==
    \/ \E c \in Starters : (Bound = 0 /\ StartCall(c)) \/ StartBody(c)
    \/ \E g \in Gens :
        \/ CancelCtx(g) \/ AcceptConn(g) \/ AcceptTransient(g)
        \/ AcceptErrCheck(g) \/ AcceptSpawn(g)
    \/ \E s \in Conns :
        \/ SessStart(s) \/ SessLoopTop(s) \/ SessReadMsg(s) \/ SessReadErr(s)
        \/ SessExit(s)

SpecDispatch == InitDispatch /\ [][NextDispatch]_vars

\* ------------------------------------------------------------------ claims
\* The session's goroutine has been launched and has not returned.
SessLive(s) == spc[s] \in {"new", "top", "read", "closing"}

\* A Stop has closed listener g and cleared the running flag after it.
StopReached(g) == g # 0 /\ lnCloses[g] > 0 /\ (listener # g \/ ~isRunning)

\* No session goroutine is running and no accepted connection awaits its launch.
NoSessionRunning == (\A s \in Conns : ~SessLive(s)) /\ (\A g \in Gens : aconn[g] = 0)

\* C1: While a Stop is in its drain wait and no session is open, the drain can
\* complete without the timeout (the in-flight counter is already zero, or one
\* of the server's own goroutines can still take a step towards it), so that
\* Stop returns success; a DrainTimeout needs an open session.
C1_StopSucceedsWhenDrained ==
    \A c \in Callers :
        (pc[c] = "stop_wait" /\ NoSessionRunning) => (WgDrained \/ ENABLED ServerStep)

\* C2: After Stop has closed the listener and cleared the running flag, a
\* session that comes to the top of its loop has been cancelled: it does not
\* start another read.
C2_NoNewReadAfterStop ==
    [][\A s \in Conns :
        (spc[s] = "top" /\ StopReached(sgen[s])) => spc'[s] # "read"]_vars

\* C3: A Stop that acquires the lock on a stopped server returns success in
\* that step and changes neither the running flag, the listener, the address,
\* the close count of any listener or socket, nor any session.
C3_StopWhenStoppedIsNoop ==
    [][\A c \in Callers :
        (pc[c] = "stop_lock" /\ pc'[c] # "stop_lock" /\ ~isRunning) =>
            /\ pc'[c] = "idle"
            /\ lastRet' = "StopOK"
            /\ UNCHANGED <<isRunning, listener, address, lnCloses, mu, wg,
                           sockCloses, spc, apc>>]_vars

\* C3 witness: a Stop returned success on a server an earlier Stop had
\* stopped, while a session of that server is still open with its socket.
C3_Witness ==
    /\ lastRet = "StopOK"
    /\ srvLog = "timeout"
    /\ \E s \in Conns : SessLive(s) /\ sockCloses[s] = 0

\* C4: A Stop call waiting for the lock while another Stop is in its drain
\* wait can proceed (and return success) at once.
C4_SecondStopNotBlocked ==
    \A c, d \in Callers :
        (pc[c] = "stop_wait" /\ pc[d] = "stop_lock") => ENABLED StopEnter(d)

\* C5: A Start that acquires the lock on a running server returns
\* AlreadyRunning in that step and keeps the running flag, the listener, the
\* address, every listener's close count, the in-flight counter and the
\* accept loops as they were.
C5_StartWhenRunningKeepsState ==
    [][\A c \in Starters :
        (pc[c] = "start_lock" /\ pc'[c] # "start_lock" /\ isRunning) =>
            /\ lastRet' = "AlreadyRunning"
            /\ UNCHANGED <<isRunning, listener, address, lnCloses, wg, apc, aln>>]_vars

\* C5 witness: a Start returned AlreadyRunning and the server still runs on
\* its first listener, which is open.
C5_Witness ==
    lastRet = "AlreadyRunning" /\ isRunning /\ listener = 1 /\ ListenerOpen(1)

\* Every session goroutine ever launched has returned with its socket closed.
SpawnedSessionsExited ==
    /\ \A s \in Conns : spc[s] \in {"none", "done"}
    /\ \A s \in Conns : spc[s] = "done" => sockCloses[s] >= 1

\* The same, and no accepted connection is still to be launched.
AllSessionsExited == SpawnedSessionsExited /\ \A g \in Gens : aconn[g] = 0

\* C6 as stated: whenever a Stop returns success, every session the server
\* ever launched has exited and released its socket.
C6_StopOKMeansAllExited ==
    [][\A c \in Callers :
        (pc[c] \in {"stop_lock", "stop_wait"} /\ pc'[c] = "idle" /\ lastRet' = "StopOK")
            => SpawnedSessionsExited']_vars

\* C6 amended: whenever a Stop that found the server running returns success
\* (out of its drain wait), every session the server ever launched has exited
\* and released its socket, no accepted connection is still to be launched,
\* and every accept loop has ended.
C6_DrainedStopMeansAllExited ==
    [][\A c \in Callers :
        (pc[c] = "stop_wait" /\ pc'[c] = "idle" /\ lastRet' = "StopOK")
            => (AllSessionsExited' /\ \A g \in Gens : apc'[g] \in {"none", "done"})]_vars

\* C6 witness: a Stop returned success out of its drain wait after both
\* connections had been accepted and their sessions had exited.
C6_Witness ==
    /\ lastRet = "StopOK"
    /\ srvLog = "graceful"
    /\ \A s \in Conns : spc[s] = "done" /\ sockCloses[s] = 1

\* C7: A session's socket has been closed exactly once when its handler has
\* returned, whatever it returned, and not at all before.
C7_SocketClosedExactlyOnce ==
    \A s \in Conns : sockCloses[s] = (IF spc[s] = "done" THEN 1 ELSE 0)

\* C7 witness: two sessions have returned on different paths (one on the
\* peer's end-of-stream, one on cancellation), each with its socket closed once.
C7_Witness ==
    \E s1, s2 \in Conns :
        /\ spc[s1] = "done" /\ ret[s1] = "nil" /\ sockCloses[s1] = 1
        /\ spc[s2] = "done" /\ ret[s2] = "ctxErr" /\ sockCloses[s2] = 1

\* C8: Each bound listener is closed exactly once: not while the server runs
\* on it and no Stop has got past the lock, and once from the moment a Stop
\* has (before that Stop clears the running flag and waits), for good.
C8_ListenerClosedOnce ==
    \A l \in Gens :
        lnCloses[l] =
            IF apc[l] = "none" THEN 0
            ELSE IF l = listener /\ isRunning /\ ~(\E c \in Callers : pc[c] = "stop_flag")
            THEN 0
            ELSE 1

\* C8 witness: two Start/Stop rounds have gone by and a further Stop has
\* returned: both listeners are closed, once each.
C8_Witness ==
    /\ \A l \in Gens : l <= 2 => (apc[l] # "none" /\ lnCloses[l] = 1)
    /\ ~isRunning /\ lastRet = "StopOK"

\* C9: A session whose read ended with the peer's end-of-stream returns nil,
\* and neither the handler nor the server logs an error for it.
C9_EOFEndsSessionNormally ==
    \A s \in Conns :
        (spc[s] = "closing" /\ rerr[s].kind = "EOF") =>
            /\ ret[s] = "nil"
            /\ ~HandlerLogsError(ret[s])
            /\ ~ServerLogsError(ret[s])

\* C10: A read that ends with the read deadline's expiry leaves the session
\* open at the top of its loop: it has not returned and its socket is open.
C10_TimeoutKeepsSessionOpen ==
    [][\A s \in Conns :
        (spc[s] = "read" /\ spc'[s] # "read" /\ rerr'[s].kind = "timeout") =>
            (spc'[s] = "top" /\ ret'[s] = "running" /\ sockCloses'[s] = 0)]_vars

\* The calls the QueryLogger has received from session s, in order.
CallsOf(s) == SelectSeq(sink, LAMBDA e : e.sock = s)

\* C11: A read that ends with an error other than end-of-stream or timeout
\* makes the session log the error and return it, and a session that is
\* returning a read error reads no further message, sends nothing more to the
\* QueryLogger, and has closed its socket once it has returned.
C11_OtherReadErrorIsFatal ==
    [][\A s \in Conns :
        /\ (spc[s] = "read" /\ spc'[s] # "read" /\ rerr'[s].kind = "other") =>
              /\ spc'[s] = "closing"
              /\ ret'[s] = "readErr"
              /\ HandlerLogsError(ret'[s])
        /\ (spc[s] \in {"closing", "done"} /\ ret[s] = "readErr") =>
              /\ spc'[s] \in {"closing", "done"}
              /\ ret'[s] = "readErr"
              /\ nread'[s] = nread[s]
              /\ CallsOf(s)' = CallsOf(s)
              /\ spc'[s] = "done" => sockCloses'[s] = 1]_vars

\* C11 witness: a session has read and dispatched its first message, its next
\* read failed with an error that is neither end-of-stream nor timeout, and it
\* is returning that error with the rest of its script unread.
C11_Witness ==
    \E s \in Conns :
        /\ spc[s] = "closing" /\ rerr[s].kind = "other" /\ ret[s] = "readErr"
        /\ nread[s] = 1 /\ Len(script[s]) = 2 /\ Len(CallsOf(s)) >= 1

\* Session s takes a step of its way out with an error: it decides to return
\* a non-nil value, or it returns one.
EndsWithError(s) ==
    \/ spc[s] \in {"top", "read"} /\ spc'[s] = "closing" /\ ret'[s] # "nil"
    \/ spc[s] = "closing" /\ spc'[s] = "done" /\ ret[s] # "nil"

\* C12: A step by which a session ends with an error changes nothing of the
\* server (running flag, listener, address, listener close counts, lock,
\* contexts, accept loops, accepted connections) and nothing of any other
\* session (its place in the loop, its return value, its socket, its
\* identity, the messages it has read, the calls the QueryLogger has got).
C12_SessionErrorTouchesNothingElse ==
    [][\A s \in Conns : EndsWithError(s) =>
        /\ UNCHANGED <<isRunning, listener, address, lnCloses, mu, ctxDone,
                       apc, aln, aconn, nconn, connCounter, sink, script>>
        /\ \A t \in Conns \ {s} :
              UNCHANGED <<spc[t], ret[t], rerr[t], sockCloses[t], connID[t],
                          nread[t], sgen[t]>>]_vars

\* C12 witness: a session has returned a read error; the server still runs
\* on its open listener with its accept loop waiting in Accept, and another
\* session is open in a read.
C12_Witness ==
    \E s, t \in Conns :
        /\ spc[s] = "done" /\ ret[s] = "readErr"
        /\ spc[t] = "read" /\ sockCloses[t] = 0
        /\ isRunning /\ ListenerOpen(listener) /\ apc[listener] = "accept"

\* Message m carries SQL text that the normalizer rejects (empty, white space
\* only, or not parseable).
FailsNormalization(m) == m.Type \in {"Query", "Parse"} /\ Normalize(m.Query).err # "none"

\* C13: A step in which a session reads a Query or Parse message whose SQL
\* fails normalization leaves the session at the top of its loop, not
\* returning, its socket open, so that the messages after it are read and
\* dispatched like any other.
C13_NormalizationFailureKeepsSession ==
    [][\A s \in Conns :
        (nread'[s] = nread[s] + 1 /\ FailsNormalization(script[s][nread'[s]])) =>
            /\ spc'[s] = "top"
            /\ ret'[s] = "running"
            /\ sockCloses'[s] = 0]_vars

\* C13 witness: the first message of a session failed normalization with a
\* syntax error, and the QueryLogger has since received the raw query and the
\* normalized result of the session's second message.
C13_Witness ==
    \E s \in Conns :
        /\ Len(script[s]) = 2 /\ nread[s] = 2
        /\ Normalize(script[s][1].Query).err = "failed to normalize"
        /\ \E i, j \in DOMAIN sink :
              /\ i < j
              /\ sink[i].sock = s /\ sink[i].seq = 2 /\ sink[i].call = "LogQuery"
              /\ sink[j].sock = s /\ sink[j].seq = 2 /\ sink[j].call = "LogNormalizedQuery"

\* The calls added to the QueryLogger's record by the step.
NewCalls == SubSeq(sink', Len(sink) + 1, Len(sink'))

\* Two sequences of calls are the same calls but for what they returned.
SameCalls(a, b) ==
    /\ Len(a) = Len(b)
    /\ \A i \in DOMAIN a :
          /\ a[i].call = b[i].call /\ a[i].seq = b[i].seq
          /\ a[i].id = b[i].id /\ a[i].arg = b[i].arg

\* C14: Whatever QueryLogger methods fail, a step in which a session reads a
\* message makes the very calls it makes when none fails (after a failing
\* LogQuery the LogNormalizedQuery of the same query is still made), and
\* leaves the session at the top of its loop, not returning, its socket open.
C14_SinkErrorsChangeNothing ==
    [][\A s \in Conns :
        (nread'[s] = nread[s] + 1) =>
            /\ SameCalls(NewCalls,
                         ProcessMessage(s, ConnectionIDString(connID[s]), nread'[s],
                                        script[s][nread'[s]], {}))
            /\ spc'[s] = "top"
            /\ ret'[s] = "running"
            /\ sockCloses'[s] = 0]_vars

\* C14 witness: LogQuery fails; the QueryLogger has received the LogQuery of
\* a session's first query, which returned an error, then the
\* LogNormalizedQuery of the same query, then a call for the next message.
C14_Witness ==
    \E s \in Conns : \E i, j, k \in DOMAIN sink :
        /\ i < j /\ j < k
        /\ sink[i].sock = s /\ sink[i].seq = 1 /\ sink[i].call = "LogQuery" /\ sink[i].err
        /\ sink[j].sock = s /\ sink[j].seq = 1 /\ sink[j].call = "LogNormalizedQuery"
        /\ sink[k].sock = s /\ sink[k].seq = 2

\* The number of calls of method c among the calls a.
CountCalls(a, c) == Cardinality({i \in DOMAIN a : a[i].call = c})

\* C15: A step in which a session reads a Query or Parse message, whatever
\* its SQL text, gives the QueryLogger exactly one LogQuery call carrying that
\* text, and one LogNormalizedQuery call exactly when the text normalizes.
C15_EveryQueryGetsRawQuery ==
    [][\A s \in Conns :
        (nread'[s] = nread[s] + 1 /\ script[s][nread'[s]].Type \in {"Query", "Parse"}) =>
            LET m == script[s][nread'[s]] IN
            /\ CountCalls(NewCalls, "LogQuery") = 1
            /\ \A i \in DOMAIN NewCalls :
                  NewCalls[i].call = "LogQuery" => NewCalls[i].arg = m.Query
            /\ CountCalls(NewCalls, "LogNormalizedQuery") =
                  (IF Normalize(m.Query).err = "none" THEN 1 ELSE 0)
            /\ CountCalls(NewCalls, "LogProtocolMessage") = 0]_vars

\* C16: A step in which a session reads a message that is neither Query nor
\* Parse gives the QueryLogger exactly one call, a LogProtocolMessage carrying
\* the session's connection ID, the message's type and its details, and no
\* LogQuery or LogNormalizedQuery.
C16_OtherKindsGetOneProtocolEvent ==
    [][\A s \in Conns :
        (nread'[s] = nread[s] + 1 /\ script[s][nread'[s]].Type \notin {"Query", "Parse"}) =>
            LET m == script[s][nread'[s]] IN
            /\ Len(NewCalls) = 1
            /\ NewCalls[1].call = "LogProtocolMessage"
            /\ NewCalls[1].id = ConnectionIDString(connID[s])
            /\ NewCalls[1].arg = <<m.Type, m.Details>>]_vars

\* C16 witness: a client sent Sync and then a Query; the QueryLogger has
\* received from its session one LogProtocolMessage for the Sync, then the
\* LogQuery and the LogNormalizedQuery of the query, and nothing else.
C16_Witness ==
    \E s \in Conns :
        /\ Len(CallsOf(s)) = 3
        /\ CallsOf(s)[1].call = "LogProtocolMessage" /\ CallsOf(s)[1].arg[1] = "Sync"
        /\ CallsOf(s)[2].call = "LogQuery" /\ CallsOf(s)[2].arg = SelectOne
        /\ CallsOf(s)[3].call = "LogNormalizedQuery"

\* The messages of a script that produce a normalized result, in order.
NormalizedSent(sc) ==
    SelectSeq(sc, LAMBDA m : /\ m.Type \in {"Query", "Parse"}
                             /\ m.Query # EmptySQL
                             /\ Normalize(m.Query).err = "none")

\* The LogNormalizedQuery calls of session s, in the order received.
NormalizedOf(s) == SelectSeq(CallsOf(s), LAMBDA e : e.call = "LogNormalizedQuery")

\* C17: The calls the QueryLogger has received from one session are in the
\* order of the messages that caused them (every call for a message comes
\* before every call for a later message of the same connection, the LogQuery
\* of a message before its LogNormalizedQuery), and the i-th normalized result
\* received from the session is that of the i-th query the client sent that
\* normalizes.
C17_SinkOrderIsArrivalOrder ==
    \A s \in Conns :
        /\ \A i, j \in DOMAIN CallsOf(s) :
              i < j =>
                 /\ CallsOf(s)[i].seq <= CallsOf(s)[j].seq
                 /\ CallsOf(s)[i].seq = CallsOf(s)[j].seq =>
                       (CallsOf(s)[i].call = "LogQuery" /\
                        CallsOf(s)[j].call = "LogNormalizedQuery")
        /\ Len(NormalizedOf(s)) <= Len(NormalizedSent(script[s]))
        /\ \A i \in DOMAIN NormalizedOf(s) :
              /\ NormalizedOf(s)[i].arg = Normalize(NormalizedSent(script[s])[i].Query).val
              /\ NormalizedOf(s)[i].arg.Original = NormalizedSent(script[s])[i].Query

\* C17 witness: two sessions have each dispatched two queries, their calls
\* interleaved at the QueryLogger (a call of the second session lies between
\* the calls for the first and the second query of the first).
C17_Witness ==
    \E s, t \in Conns : \E i, j, k \in DOMAIN sink :
        /\ s # t /\ i < j /\ j < k
        /\ sink[i].sock = s /\ sink[i].seq = 1
        /\ sink[j].sock = t
        /\ sink[k].sock = s /\ sink[k].seq = 2 /\ sink[k].call = "LogNormalizedQuery"
        /\ Len(NormalizedOf(s)) = 2 /\ Len(NormalizedOf(t)) = 2

\* Message m is a query with SQL text that is not empty.
IsNonEmptyQuery(m) == m.Type \in {"Query", "Parse"} /\ m.Query # EmptySQL

\* The LogQuery calls received for the n-th message of session s.
RawQueryCalls(s, n) ==
    {i \in DOMAIN sink : sink[i].sock = s /\ sink[i].seq = n /\ sink[i].call = "LogQuery"}

\* C18: Under every interleaving of the sessions, each non-empty query a
\* session has read has reached the QueryLogger as exactly one LogQuery call,
\* carrying the query's text and the connection ID of the session that read
\* it, and no LogQuery call has been received for a query not yet read.
C18_EachRawQueryExactlyOnce ==
    \A s \in Conns : \A n \in DOMAIN script[s] :
        IF n <= nread[s] /\ IsNonEmptyQuery(script[s][n])
        THEN /\ Cardinality(RawQueryCalls(s, n)) = 1
             /\ \A i \in RawQueryCalls(s, n) :
                   /\ sink[i].arg = script[s][n].Query
                   /\ sink[i].id = ConnectionIDString(connID[s])
        ELSE RawQueryCalls(s, n) = {}

\* C18 witness: N = MaxConns clients have each sent M = MaxMsgs queries that
\* normalize and have then closed; their sessions ran concurrently (the first
\* call of one lies between the calls of another) and have returned, and the
\* QueryLogger has N x M LogQuery calls.
C18_Witness ==
    /\ \A s \in Conns :
          /\ spc[s] = "done" /\ nread[s] = MaxMsgs /\ Len(script[s]) = MaxMsgs
          /\ \A n \in DOMAIN script[s] : IsNonEmptyQuery(script[s][n])
    /\ CountCalls(sink, "LogQuery") = MaxConns * MaxMsgs
    /\ \E i, j, k \in DOMAIN sink :
          i < j /\ j < k /\ sink[i].sock = sink[k].sock /\ sink[j].sock # sink[i].sock

\* C19: No two sessions have drawn the same connection identity, under any
\* interleaving of their starts, and every call the QueryLogger has received
\* carries the identity of the session that made it, which no call of another
\* session carries.
C19_ConnectionIDsUnique ==
    /\ \A s, t \in Conns :
          (s # t /\ connID[s] # 0 /\ connID[t] # 0) => connID[s] # connID[t]
    /\ \A i \in DOMAIN sink :
          /\ connID[sink[i].sock] # 0
          /\ sink[i].id = ConnectionIDString(connID[sink[i].sock])
    /\ \A i, j \in DOMAIN sink :
          sink[i].sock # sink[j].sock => sink[i].id # sink[j].id

\* C19 witness: two sessions launched one after the other drew their
\* identities in the opposite order, both are open, and the QueryLogger has
\* calls from both.
C19_Witness ==
    \E s, t \in Conns :
        /\ s < t /\ connID[t] = 1 /\ connID[s] = 2
        /\ spc[s] \in {"top", "read"} /\ spc[t] \in {"top", "read"}
        /\ Len(CallsOf(s)) >= 1 /\ Len(CallsOf(t)) >= 1

\* C20: Connection identities follow accept order: a connection accepted
\* after another has an identity only if the earlier one has, and a greater one.
C20_IdentityFollowsAcceptOrder ==
    \A s, t \in Conns :
        (s < t /\ connID[t] # 0) => (connID[s] # 0 /\ connID[s] < connID[t])

\* --------------------------------------------------------- the wire decoder
\* The bytes of a token of SQL text.
Spell(t) ==
    CASE t = "select" -> <<115, 101, 108, 101, 99, 116>>
      [] t = "selec"  -> <<115, 101, 108, 101, 99>>
      [] t = " "      -> <<32>>
      [] t = "1"      -> <<49>>
      [] t = "2"      -> <<50>>

\* The bytes of a SQL text, and the SQL text of bytes (Go's string(src)).
RECURSIVE BytesOf(_)
BytesOf(q) == IF q = <<>> THEN <<>> ELSE Spell(Head(q)) \o BytesOf(Tail(q))

WireTexts == {EmptySQL, Blank, SelectOne, SelectTwo, Selec}
IsText(bs) == \E q \in WireTexts : BytesOf(q) = bs
TextOf(bs) == CHOOSE q \in WireTexts : BytesOf(q) = bs

\* A 32-bit integer in network byte order.
Uint32BE(n) == <<(n \div 16777216) % 256, (n \div 65536) % 256, (n \div 256) % 256, n % 256>>
ReadUint32BE(bs) == ((bs[1] * 256 + bs[2]) * 256 + bs[3]) * 256 + bs[4]

\* What a client writes: a regular-phase frame is a tag, the length of the
\* rest (itself included) and the payload; the SSL-negotiation frame of the
\* startup phase has no tag.
Frame(tag, payload) == <<tag>> \o Uint32BE(Len(payload) + 4) \o payload
SSLRequestCode   == 80877103
SSLRequestFrame  == Uint32BE(8) \o Uint32BE(SSLRequestCode)
QueryFrame(q)    == Frame(81, BytesOf(q) \o <<0>>)
PasswordFrame(p) == Frame(112, p \o <<0>>)
SyncFrame        == Frame(83, <<>>)
CopyDoneFrame    == Frame(99, <<>>)
UnknownTag       == 122
UnknownTagFrame  == Frame(UnknownTag, <<7>>)
\* A Query frame whose SQL text lacks its terminating zero byte.
MalformedQueryFrame == Frame(81, BytesOf(SelectOne))

\* The tags Backend.Receive has a message type for, besides those of the
\* authentication exchange.
ReceiveTags == {66, 67, 68, 69, 70, 72, 80, 81, 83, 88, 99, 100, 102, 112}

\* The credentials a client may send.
Credentials == {<<112, 119>>, <<113, 120>>, <<112>>}

Frames ==
    {SSLRequestFrame, QueryFrame(SelectOne), QueryFrame(Selec), SyncFrame,
     CopyDoneFrame, UnknownTagFrame, MalformedQueryFrame}
    \cup {PasswordFrame(p) : p \in Credentials}

RECURSIVE Concat(_)
Concat(fs) == IF fs = <<>> THEN <<>> ELSE Head(fs) \o Concat(Tail(fs))

Streams == {Concat(fs) : fs \in UNION {[1..n -> Frames] : n \in 0..MaxFrames}}

\* A message of pgproto3, or none.
NoMessage == [T |-> "none"]

\* Mutant: the length of a frame is taken for the length of its payload.
MutBodyLen(n) == n

\* The length of a frame's payload: its length field counts itself.
BodyLen(n) == n - 4

\* The Decode method of the message type of a tag, for the types a client of
\* this model sends.
Decode(tag, body) ==
    CASE tag = 81 ->
            IF body # <<>> /\ body[Len(body)] = 0 /\ IsText(SubSeq(body, 1, Len(body) - 1))
            THEN [T |-> "Query", String |-> TextOf(SubSeq(body, 1, Len(body) - 1))]
            ELSE NoMessage
      [] tag = 112 ->
            IF body # <<>> /\ body[Len(body)] = 0
                /\ \A i \in 1..(Len(body) - 1) : body[i] # 0
            THEN [T |-> "PasswordMessage", Password |-> SubSeq(body, 1, Len(body) - 1)]
            ELSE NoMessage
      [] tag = 83 -> IF body = <<>> THEN [T |-> "Sync"] ELSE NoMessage
      [] tag = 99 -> IF body = <<>> THEN [T |-> "CopyDone"] ELSE NoMessage
      [] OTHER -> NoMessage

\* Backend.Receive on the unread bytes bs of a connection its client has
\* closed: the message, the kind of the error ("none" = nil) and the bytes
\* left.  It reads a regular-phase frame: a five-byte header, then the payload.
Receive(bs) ==
    IF bs = <<>> THEN [msg |-> NoMessage, err |-> "EOF", rest |-> bs]
    ELSE IF Len(bs) < 5 THEN [msg |-> NoMessage, err |-> "other", rest |-> <<>>]
    ELSE LET tag  == bs[1]
             n    == ReadUint32BE(SubSeq(bs, 2, 5))
             rest == SubSeq(bs, 6, Len(bs))
         IN  IF n < 4 THEN [msg |-> NoMessage, err |-> "other", rest |-> rest]
             ELSE IF tag \notin ReceiveTags
             THEN [msg |-> NoMessage, err |-> "other", rest |-> rest]
             ELSE IF Len(rest) < BodyLen(n)
             THEN [msg |-> NoMessage, err |-> "other", rest |-> <<>>]
             ELSE LET m == Decode(tag, SubSeq(rest, 1, BodyLen(n)))
                      r == SubSeq(rest, BodyLen(n) + 1, Len(rest))
                  IN  IF m = NoMessage
                      THEN [msg |-> NoMessage, err |-> "other", rest |-> r]
                      ELSE [msg |-> m, err |-> "none", rest |-> r]

\* Mutant: the credential is put into the details.
MutParsePassword(pw) ==
    ParsedMessage("PasswordMessage", EmptySQL,
                  {<<"password_length", Len(pw)>>, <<"password", pw>>})

\* parseMessage, case *pgproto3.PasswordMessage.
ParsePassword(pw) == PasswordMsg(pw)

\* fmt.Sprintf("Unknown_%T", msg).
UnknownType(t) ==
    IF t = "CopyDone" THEN "Unknown_*pgproto3.CopyDone" ELSE "Unknown_*pgproto3.Message"

\* parseMessage: a message of pgproto3 as a *ParsedMessage.
ParseMessage(m) ==
    CASE m.T = "Query"           -> QueryMsg(m.String)
      [] m.T = "PasswordMessage" -> ParsePassword(m.Password)
      [] m.T = "Sync"            -> SyncMsg
      [] OTHER -> ParsedMessage(UnknownType(m.T), EmptySQL, {<<"message", m>>})

\* PostgreSQLParser.ReadMessage.
ReadMessage(bs) ==
    LET r == Receive(bs)
    IN  IF r.err # "none"
        THEN [msg |-> NoMessage, err |-> ReadMessageErr(r.err), rest |-> r.rest]
        ELSE [msg |-> ParseMessage(r.msg), err |-> NoErr, rest |-> r.rest]

\* The session of the first connection reads a client that has written
\* stream and closed its socket.
InitWire ==
    /\ InitFields /\ handler = "postgres" /\ QuietClients
    /\ stream \in Streams
    /\ wire = stream /\ wmsgs = <<>> /\ wsink = <<>> /\ wret = "running"
    /\ NoNormalizer /\ NewSimpleLogger

\* One turn of the read loop of HandleConnection whose read fails.
WireReadErr ==
    /\ wret = "running"
    /\ ReadMessage(wire).err # NoErr
    /\ wire' = ReadMessage(wire).rest
    /\ wret' = CASE OnReadError(ReadMessage(wire).err) = "eof"   -> "nil"
                 [] OnReadError(ReadMessage(wire).err) = "fatal" -> "readErr"
                 [] OTHER -> wret
    /\ UNCHANGED <<srvVars, callVars, acceptVars, sessVars, sinkVars, stream, wmsgs, wsink,
                   normVars, logVars>>

\* One turn of the read loop of HandleConnection whose read gives a message.
WireReadMsg ==
    /\ wret = "running"
    /\ ReadMessage(wire).err = NoErr
    /\ LET m == ReadMessage(wire).msg
       IN  /\ wmsgs' = Append(wmsgs, m)
           /\ wsink' = Deliver(wsink, ProcessMessage(1, ConnectionIDString(1),
                                                     Len(wmsgs) + 1, m, {}))
           /\ wret' = IF AfterProcessMessage(m, {}) = "top" THEN wret ELSE "closing"
    /\ wire' = ReadMessage(wire).rest
    /\ UNCHANGED <<srvVars, callVars, acceptVars, sessVars, sinkVars, stream, normVars,
                   logVars>>

NextWire == WireReadErr \/ WireReadMsg

SpecWire == InitWire /\ [][NextWire]_vars

\* ------------------------------------------------- claims about the decoder
\* Stream a begins with the bytes b.
StartsWith(a, b) == Len(a) >= Len(b) /\ SubSeq(a, 1, Len(b)) = b

\* The session has finished its first read of the stream.
FirstReadDone == wmsgs # <<>> \/ wret # "running"

\* The methods called on the QueryLogger for the stream, in order.
WireCalls == [i \in 1..Len(wsink) |-> wsink[i].call]

\* C21: a client that sends the 8-byte SSL-negotiation frame, then a Query for
\* "select 1", and disconnects causes one ProtocolEvent for the negotiation,
\* then one RawQuery and one NormalizedResult for the query, and the session
\* returns without error.
C21_SSLRequestThenQuery ==
    (stream = SSLRequestFrame \o QueryFrame(SelectOne) /\ wret # "running") =>
        /\ wret = "nil"
        /\ WireCalls = <<"LogProtocolMessage", "LogQuery", "LogNormalizedQuery">>
        /\ wsink[2].arg = SelectOne

\* C22: a Query frame sent as the first bytes of a connection is decoded as a
\* Query message, and its SQL text reaches the QueryLogger as a raw query and,
\* when it normalizes, as a normalized query.
C22_QueryFrameFirst ==
    \A q \in WireTexts :
        (StartsWith(stream, QueryFrame(q)) /\ FirstReadDone) =>
            /\ wmsgs # <<>>
            /\ wmsgs[1].Type = "Query" /\ wmsgs[1].Query = q
            /\ q # EmptySQL =>
                   /\ wsink # <<>>
                   /\ wsink[1].call = "LogQuery" /\ wsink[1].arg = q
            /\ PgParses(q) =>
                   /\ Len(wsink) >= 2
                   /\ wsink[2].call = "LogNormalizedQuery"
                   /\ wsink[2].arg.Original = q

C22_Witness ==
    /\ stream = QueryFrame(SelectOne)
    /\ wmsgs = <<QueryMsg(SelectOne)>>
    /\ WireCalls = <<"LogQuery", "LogNormalizedQuery">>

\* C23: a well-framed message whose tag is not a known one does not fail
\* decoding: an Unknown-kind message is emitted for it, it goes to the
\* QueryLogger as a protocol message, and the session keeps running.
C23_UnknownTagIsForwarded ==
    (StartsWith(stream, UnknownTagFrame) /\ FirstReadDone) =>
        /\ wmsgs # <<>>
        /\ wmsgs[1].Type \notin {"Query", "PasswordMessage", "Sync"}
        /\ wsink # <<>>
        /\ wsink[1].call = "LogProtocolMessage"
        /\ (Len(wmsgs) = 1 => wret = "running")

\* What the QueryLogger receives for a PasswordMessage, the n-th message of
\* the stream, whose credential has k bytes.
PasswordEvent(n, k) ==
    SinkCall(1, ConnectionIDString(1), "LogProtocolMessage", n,
             <<"PasswordMessage", {<<"password_length", k>>}>>, {})

\* C24: the credential of a PasswordMessage does not reach the QueryLogger:
\* the decoded message and the protocol event carry its length and nothing
\* else of it, so that credentials of equal length give the same event.
C24_CredentialNeverLogged ==
    \A p1, p2 \in Credentials :
        (Len(p1) = Len(p2) /\ StartsWith(stream, PasswordFrame(p1)) /\ FirstReadDone) =>
            /\ wmsgs # <<>>
            /\ wmsgs[1] = ParsedMessage("PasswordMessage", EmptySQL,
                                        {<<"password_length", Len(p2)>>})
            /\ wsink # <<>>
            /\ wsink[1] = PasswordEvent(1, Len(p2))

C24_Witness ==
    /\ stream = PasswordFrame(<<112, 119>>)
    /\ wsink = <<PasswordEvent(1, 2)>>
    /\ PasswordFrame(<<113, 120>>) \in Frames

\* ----------------------------------------------------------- the normalizer
\* The tokens of the texts enumerated in full.
Alphabet == {"select", "selec", " ", "\t", "\n", "1"}

ShortTexts == UNION {[1..n -> Alphabet] : n \in 0..MaxTokens}

\* Statements with literals in several clauses, for every choice of literals:
\* a WHERE-less SELECT of two values, one with LIMIT and OFFSET, one with
\* OFFSET before LIMIT, and one with a common table expression.
ShapeTexts ==
    UNION { { <<"select", " ", a, " ", b>>,
              <<"select", " ", a, " ", "limit", " ", b, " ", "offset", " ", c>>,
              <<"select", " ", a, " ", "offset", " ", b, " ", "limit", " ", c>>,
              <<"with", " ", "(", "select", " ", a, ")", " ", "select", " ", b>> }
            : <<a, b, c>> \in Literals \X Literals \X Literals }

Texts == ShortTexts \cup ShapeTexts

\* The normalizer is given a text; pg_query.Fingerprint may fail on it.
InitNormalize ==
    /\ InitFields /\ handler = "postgres" /\ QuietClients /\ NoWire /\ NewSimpleLogger
    /\ fpOK \in BOOLEAN
    /\ nin \in Texts
    /\ nout = [val |-> ZeroNormalizedQuery, err |-> "pending"]
    /\ nproc = FALSE /\ nsink = <<>>

\* normalizer.Normalize(nin), called on its own.
NormalizeCall ==
    /\ nout.err = "pending"
    /\ nout' = Normalize(nin)
    /\ UNCHANGED <<srvVars, callVars, acceptVars, sessVars, sinkVars, wireVars,
                   fpOK, nin, nproc, nsink, logVars>>

\* processMessage on a Query message that carries nin.
ProcessQuery ==
    /\ ~nproc
    /\ nproc' = TRUE
    /\ nsink' = Deliver(nsink, ProcessMessage(1, ConnectionIDString(1), 1, QueryMsg(nin), {}))
    /\ UNCHANGED <<srvVars, callVars, acceptVars, sessVars, sinkVars, wireVars,
                   fpOK, nin, nout, logVars>>

NextNormalize == NormalizeCall \/ ProcessQuery

SpecNormalize == InitNormalize /\ [][NextNormalize]_vars

\* ---------------------------------------------- claims about the normalizer
\* Normalize has returned.
Normalized == nout.err # "pending"

\* White space: spaces, tabs, newlines.
WhiteSpace == {" ", "\t", "\n"}

\* C25: Normalize fails with the empty-query error for the empty text and for
\* every text of white space only, and for no text that has another token.
C25_EmptyQueryError ==
    Normalized =>
        (nout.err = "empty query" <=> \A i \in 1..Len(nin) : nin[i] \in WhiteSpace)

C25_Witness ==
    /\ nin = <<"\t", "\n">> /\ nout.err = "empty query"
    /\ <<"\t", "select">> \in Texts

\* Two texts that differ in the values of their literals at most.
SameButLiterals(a, b) ==
    /\ Len(a) = Len(b)
    /\ \A i \in 1..Len(a) : a[i] = b[i] \/ (a[i] \in Literals /\ b[i] \in Literals)

\* C26: for two statements that differ in their literal values only,
\* Normalize succeeds on both and gives the same hash.
C26_SameShapeSameFingerprint ==
    (Normalized /\ fpOK /\ PgParses(nin)) =>
        \A q \in Texts :
            SameButLiterals(nin, q) =>
                /\ nout.err = "none"
                /\ Normalize(q).err = "none"
                /\ nout.val.Hash = Normalize(q).val.Hash

C26_Witness ==
    /\ nin = <<"select", " ", "1", " ", "2">>
    /\ nout.err = "none"
    /\ \E q \in Texts : q # nin /\ SameButLiterals(nin, q)

IsPlaceholder(t) == t \in {"$1", "$2", "$3", "$n"}

\* The places of the placeholders of a text.
PlaceholderPositions(t) == {i \in 1..Len(t) : IsPlaceholder(t[i])}

\* The placeholders of t are $1, $2, ... from left to right.
NumberedLeftToRight(t) ==
    \A i \in PlaceholderPositions(t) :
        t[i] = Placeholder(1 + Cardinality({j \in PlaceholderPositions(t) : j < i}))

\* Every literal of q is a placeholder in t, and nothing else has changed.
LiteralsReplaced(q, t) ==
    /\ Len(t) = Len(q)
    /\ \A i \in 1..Len(q) :
           IF q[i] \in Literals THEN IsPlaceholder(t[i]) ELSE t[i] = q[i]

PlainStatement(q) == \A i \in 1..Len(q) : q[i] \notin {"limit", "offset", "with"}

C29_FailureReturnsZero ==
    /\ (Normalized /\ nout.err # "none") => nout.val = ZeroNormalizedQuery
    /\ (nproc /\ Normalize(nin).err # "none") =>
           \A i \in 1..Len(nsink) : nsink[i].call # "LogNormalizedQuery"

C29_Witness ==
    /\ ~fpOK /\ PgParses(nin)
    /\ nout.err = "failed to generate fingerprint"
    /\ nproc
    /\ [i \in 1..Len(nsink) |-> nsink[i].call] = <<"LogQuery">>

\* --------------------------------------------------------------- the logger
\* The keys and values given to WithField.
FieldKeys   == {"connection_id", "remote_addr"}
FieldValues == {"conn_1", "conn_2"}

\* newFields[key] = value on a map.
MapSet(mp, k, v) == [x \in (DOMAIN mp) \cup {k} |-> IF x = k THEN v ELSE mp[x]]

\* for k, v := range l.fields { newFields[k] = v } on a new map.
MapCopy(mp) == [x \in DOMAIN mp |-> mp[x]]

\* Mutant: the field is written into the receiver's own map, which the new
\* logger shares.
MutWithFieldMap(heap, ref, k, v) ==
    [heap |-> [heap EXCEPT ![ref] = MapSet(@, k, v)], ref |-> ref]

\* The body of WithField on the heap of maps: a new map is allocated, filled
\* with the receiver's fields and the new one, and given to the new logger.
WithFieldMap(heap, ref, k, v) ==
    [heap |-> Append(heap, MapSet(MapCopy(heap[ref]), k, v)), ref |-> Len(heap) + 1]

\* The fields logger l logs with.
Fields(l) == lheap[lfields[l]]

\* l.WithField(k, v): returns a new *SimpleLogger.
WithField(l, k, v) ==
    /\ Len(lfields) < MaxLoggers
    /\ lheap' = WithFieldMap(lheap, lfields[l], k, v).heap
    /\ lfields' = Append(lfields, WithFieldMap(lheap, lfields[l], k, v).ref)
    /\ lfrom' = Append(lfrom, [parent |-> l, key |-> k, value |-> v, had |-> Fields(l)])
    /\ UNCHANGED <<srvVars, callVars, acceptVars, sessVars, sinkVars, wireVars, normVars>>

InitLogger ==
    /\ InitFields /\ handler = "postgres" /\ QuietClients /\ NoWire /\ NoNormalizer
    /\ NewSimpleLogger

NextLogger ==
    \E l \in 1..Len(lfields), k \in FieldKeys, v \in FieldValues : WithField(l, k, v)

SpecLogger == InitLogger /\ [][NextLogger]_vars

\* C30: WithField does not change the logger it is called on: after any
\* WithField calls the base logger has the fields it began with, every derived
\* logger has the fields its receiver had, with its own key set to its value,
\* and nothing else, and the receiver still has the fields it had.
C30_WithFieldLeavesReceiver ==
    /\ Fields(1) = EmptyMap
    /\ \A l \in 2..Len(lfields) :
           /\ Fields(l) = MapSet(lfrom[l].had, lfrom[l].key, lfrom[l].value)
           /\ Fields(lfrom[l].parent) = lfrom[l].had

C30_Witness ==
    /\ Len(lfields) >= 3
    /\ lfrom[2].parent = 1 /\ lfrom[3].parent = 1
    /\ lfrom[2].key = "connection_id" /\ lfrom[3].key = "connection_id"
    /\ Fields(2) = [x \in {"connection_id"} |-> "conn_1"]
    /\ Fields(3) = [x \in {"connection_id"} |-> "conn_2"]
    /\ Fields(1) = EmptyMap

\* -------------------------------------------- claims about Start and Stop II
\* C31: Start and Stop never panic, whatever the order and interleaving of the
\* calls: a Start after a Stop that returned DrainTimeout, with the drain
\* goroutine of that Stop still in wg.Wait(), does not misuse the WaitGroup.
C31_NeverPanics == ~Panicked

\* s.mu.RLock() in Address and s.mu.Lock() in Start and Stop return without
\* waiting: no goroutine holds the write lock.
LockFree == mu = NoOne

\* C32: the server's lock is not held across a blocking wait: while a Stop is
\* waiting for the sessions to drain, Address, another Start or Stop, and the
\* accept loop's reading of the running flag get the lock at once.
C32_LockFreeDuringDrain ==
    \A c \in Callers : pc[c] = "stop_wait" => LockFree

\* C33: when the ctx is cancelled while a session is blocked in a read, the
\* session does not wait for that read to complete: the message being read is
\* neither taken from the client nor sent to the QueryLogger.
C33_CancelledReadNotDispatched ==
    [][\A s \in Conns :
        (spc[s] = "read" /\ ctxDone[sgen[s]]) =>
            (nread'[s] = nread[s] /\ CallsOf(s)' = CallsOf(s))]_vars

\* Accept loop g has been launched and has not returned.
AcceptLoopLive(g) == apc[g] \in {"accept", "err", "spawn"}

\* C34: while the server is running on an open listener an accept loop is
\* alive: an accept error that does not come from the closing of the listener
\* does not end the loop, also when the ctx given to Start is cancelled and
\* Stop has not been called.
C34_AcceptLoopAliveWhileRunning ==
    (isRunning /\ ListenerOpen(listener)) => \E g \in Gens : AcceptLoopLive(g)

\* C35: the closing of the listener alone lets the accept loop exit: a loop
\* that Accept has given the error of the closed listener can go through its
\* error branch at once, whether or not Stop has returned, its timeout has
\* expired or the ctx given to Start is cancelled.
C35_ClosedListenerEndsAcceptLoop ==
    \A g \in Gens :
        (apc[g] = "err" /\ ~ListenerOpen(aln[g])) => ENABLED AcceptErrCheck(g)

\* C36: after Stop has closed the listener no session is launched on a
\* connection accepted from it: a session is launched while the listener its
\* connection came from is open.
C36_NoLaunchAfterClose ==
    [][\A g \in Gens :
        (aconn[g] # 0 /\ spc[aconn[g]] = "none" /\ spc'[aconn[g]] = "new")
            => ListenerOpen(aln[g])]_vars

\* Caller c's Start returns in this step.
StartReturns(c) == pc[c] = "start_lock" /\ pc'[c] = "idle"

C38_BindFailureChangesNothing ==
    [][/\ \A c \in Starters :
              (StartReturns(c) /\ lastRet' = "BindFailure") =>
                  /\ ~isRunning /\ ~isRunning'
                  /\ UNCHANGED <<listener, address, lnCloses, wg, leaked, apc, aln, aconn>>
       /\ (lastRet = "BindFailure" /\ \E c \in Starters : StartReturns(c)) =>
              lastRet' \in {"StartOK", "BindFailure"}]_vars

\* C39: at every moment at most one accept loop is running (a loop whose
\* listener is closed and that is on its way to its return is not counted),
\* and a loop that is about to accept does so on the listener bound by the
\* most recent successful Start.
C39_OneAcceptLoop ==
    /\ Cardinality({g \in Gens : AcceptLoopLive(g) /\ ListenerOpen(aln[g])}) <= 1
    /\ \A g \in Gens : (apc[g] = "accept" /\ ListenerOpen(aln[g])) => aln[g] = listener

\* The ctx handed to session s has been cancelled while the session runs.
CancelledLive(s) == SessLive(s) /\ sgen[s] # 0 /\ ctxDone[sgen[s]]

\* C40: once its ctx is cancelled (and a cancelled ctx stays cancelled), a
\* session dispatches a message only as the outcome of the read that was in
\* flight, which takes it back to the top of its loop; it starts no new read;
\* from the top of the loop it can only go to its return with the ctx's error,
\* and it has closed its socket exactly once when it has returned it.
C40_CancelEndsSession ==
    [][\A s \in Conns : CancelledLive(s) =>
          /\ ctxDone'[sgen[s]]
          /\ (nread'[s] # nread[s] \/ CallsOf(s)' # CallsOf(s)) =>
                 (spc[s] = "read" /\ spc'[s] = "top")
          /\ spc'[s] = "read" => spc[s] = "read"
          /\ (spc[s] = "top" /\ spc'[s] # "top") =>
                 (spc'[s] = "closing" /\ ret'[s] = "ctxErr")
          /\ (spc[s] = "closing" /\ ret[s] = "ctxErr" /\ spc'[s] # "closing") =>
                 (spc'[s] = "done" /\ ret'[s] = "ctxErr" /\ sockCloses'[s] = 1)]_vars

\* C40 witness: a session of the PostgreSQL handler that has dispatched a
\* message has returned the ctx's error with its socket closed.
C40_Witness ==
    \E s \in Conns :
        /\ handler = "postgres"
        /\ spc[s] = "done" /\ ret[s] = "ctxErr" /\ sockCloses[s] = 1
        /\ Len(CallsOf(s)) >= 1

====
